---- MODULE Spec2Model ----
(***************************************************************************)
(* Evidence-grounded generation of the Local AI Issue Tracker:             *)
(* the suggest and sop-draft routes, retrieveEvidence over the rag_items   *)
(* store, and the two LLM clients (LocalAIConnector.chatCompletion of      *)
(* src/lib/ai.ts and ollamaChatJson of src/unnamed/part_009).              *)
(***************************************************************************)
EXTENDS Integers, Sequences, FiniteSets, TLC

VARIABLES
    lib,        \* which client module is deployed as "@/lib/ai"
    rag_items,  \* rows of public.rag_items, with their distance to the query
    pc,         \* position of the request being served
    route,      \* the route serving it
    evidence,   \* EvidenceItem[] of the call
    attempt,    \* loop variable of chatCompletion
    timers,     \* attempts whose abort timer is armed and not yet cleared
    lastError,  \* lastError of chatCompletion
    llmLog,     \* requests sent to the LLM endpoint by this call, with outcome
    result,     \* what aiSuggest / aiSopDraft returned or threw
    http,       \* the route's response
    req,        \* what the handler read from the request
    rpc,        \* the rag_search call sent to the store by this request
    upc,        \* position of the ragUpsert call being served
    input,      \* the argument of that call
    chunker,    \* locals of chunkTextByChars, and the windows it sliced
    ret,        \* what ragUpsert returned or threw
    before,     \* rag_items when the call began
    again,      \* the call repeats the call that ended just before it
    impl,       \* which status route is deployed
    tickets,    \* rows of public.tickets
    clock,      \* what new Date() returns
    treq,       \* the requests the ticket routes are serving
    scene,      \* which of the functions below the behaviour exercises
    emb,        \* a call of embedTextToVector384 and vectorToPgVectorString
    srch,       \* a call of ragSearch: the module called, the rows of the
                \* store's answer and the rows returned
    auth,       \* rows of local_users with their user_roles row, and the
                \* registration requests being served
    lim,        \* the buckets of the client-log route, Date.now(), the
                \* requests let through in the last minute, the last answer
    sync        \* a run of syncGitHubIssues: its locals, its sync_logs row,
                \* how it ended

vars == <<lib, rag_items, pc, route, evidence, attempt, timers, lastError,
          llmLog, result, http, req, rpc,
          upc, input, chunker, ret, before, again,
          impl, tickets, clock, treq,
          scene, emb, srch, auth, lim, sync>>

\* the request-scoped state of the routes, without the store
reqVars == <<lib, pc, route, evidence, attempt, timers, lastError, llmLog,
             result, http, req, rpc>>

ragVars == <<upc, input, chunker, ret, before, again>>

tktVars == <<impl, tickets, clock, treq>>

auxVars == <<scene, emb, srch, auth, lim, sync>>

----------------------------------------------------------------------------
(* Bounds of the model *)

MaxRows == 2
MaxDist == 2
MaxTextLen == 1
MaxContentLen == 3
MaxPolicy == 2
MaxClock == 3
MaxSupplied == 2
MaxTicks == 2
MaxOther == 1
MaxIssues == 2

(* Program constants *)

maxRetries == 3
timeoutMs == 30000
ollamaTimeoutMs == 20000
suggestLimit == 6
sopLimit == 8
minLimit == 1
maxLimit == 50
defaultLimit == 8
maxCharsDefault == 1400
overlapCharsDefault == 200
rateLimit == 60
windowMs == 60000
ScoreOne == 1

----------------------------------------------------------------------------
(* Text: a string is a sequence of characters *)

Chars == {" ", "a"}

Texts == UNION {[1..n -> Chars] : n \in 0..MaxTextLen}

IsSpace(c) == c = " "

RECURSIVE TrimStart(_)
TrimStart(s) ==
    IF s = <<>> THEN <<>>
    ELSE IF IsSpace(Head(s)) THEN TrimStart(Tail(s)) ELSE s

RECURSIVE TrimEnd(_)
TrimEnd(s) ==
    IF s = <<>> THEN <<>>
    ELSE IF IsSpace(s[Len(s)]) THEN TrimEnd(SubSeq(s, 1, Len(s) - 1)) ELSE s

\* variant: the string is used untrimmed
NoTrim(s) == s

\* String.prototype.trim
Trim(s) == TrimEnd(TrimStart(s))

\* a field of a JSON request body: a string, or something else / missing
BodyFields == [type : {"string"}, value : Texts]
                \cup {[type |-> "undefined", value |-> <<>>]}

\* typeof f === "string" ? f : ""
StringOrEmpty(f) == IF f.type = "string" THEN f.value ELSE <<>>

Roles == {"Admin", "Engineer", "Viewer"}

canWrite(role) == role = "Admin" \/ role = "Engineer"

Min(a, b) == IF a < b THEN a ELSE b
Max(a, b) == IF a > b THEN a ELSE b

----------------------------------------------------------------------------
(* The store and the similarity search *)

Rows == [source_type : {"ticket"}, source_id : 1..MaxRows,
         chunk_index : {0}, dist : 0..MaxDist]

\* rag_items_source_unique
UniqueKey(S) ==
    \A r, q \in S :
        (r.source_type = q.source_type /\ r.source_id = q.source_id
           /\ r.chunk_index = q.chunk_index) => r = q

Stores == {S \in SUBSET Rows : UniqueKey(S)}

\* every ordering of S by ascending distance (ties in any order)
RECURSIVE OrderByDist(_)
OrderByDist(S) ==
    IF S = {} THEN {<<>>}
    ELSE UNION {{<<r>> \o t : t \in OrderByDist(S \ {r})} :
                  r \in {x \in S : \A y \in S : x.dist <= y.dist}}

ScoreOf(r) == ScoreOne - r.dist

ResultRow(r) ==
    [source_type |-> r.source_type, source_id |-> r.source_id,
     chunk_index |-> r.chunk_index, score |-> ScoreOf(r)]

\* public.rag_search: the possible result sequences
rag_search(items, match_count, filter_source_type) ==
    LET cands == {r \in items : filter_source_type = "NULL"
                                  \/ r.source_type = filter_source_type}
    IN  {[i \in 1..Min(match_count, Len(s)) |-> ResultRow(s[i])] :
            s \in OrderByDist(cands)}

\* the limit of a call: a number, or not given
Limits == {-1, 0, 1, 2, 3, 49, 50, 51}

LimitFields == [type : {"number"}, value : Limits]
                 \cup {[type |-> "undefined", value |-> 0]}

Number(n) == [type |-> "number", value |-> n]

\* input.limit ?? 8
LimitOrDefault(limit) ==
    IF limit.type = "number" THEN limit.value ELSE defaultLimit

\* variant: the lower clamp is missing
ClampLimitNoFloor(limit) == Min(limit, maxLimit)

ClampLimit(limit) == Max(minLimit, Min(limit, maxLimit))

\* the match_count ragSearch sends to the store
MatchCount(limit) == ClampLimit(LimitOrDefault(limit))

\* ragSearch, when the store answers without error
ragSearch(items, limit, filterSourceType) ==
    rag_search(items, MatchCount(limit), filterSourceType)

\* variant: the zero-based index of map() used as it is
RefTokenZeroBased(idx) == "E" \o ToString(idx - 1)

RefToken(idx) == "E" \o ToString(idx)

EvidenceOf(r, idx) ==
    [ref |-> RefToken(idx), source_type |-> r.source_type,
     source_id |-> r.source_id, score |-> r.score]

\* results.map((r, idx) => ({ref: `E${idx + 1}`, ...}))  (idx here from 1)
MapEvidence(results) == [k \in 1..Len(results) |-> EvidenceOf(results[k], k)]

retrieveEvidence(items, limit) ==
    {MapEvidence(results) : results \in ragSearch(items, Number(limit), "NULL")}

RouteLimit(r) == IF r = "suggest" THEN suggestLimit ELSE sopLimit

----------------------------------------------------------------------------
(* JSON values handed back by the LLM, and the results built from them *)

SuggestionKeys == {"summary", "confidence_overall", "root_causes",
                   "recommended_steps", "validation_steps",
                   "rollback_procedures", "questions"}

SopDraftKeys == {"problem_description", "symptoms", "root_cause",
                 "resolution_steps", "validation_steps",
                 "rollback_procedures", "references"}

NoValue ==
    [keys |-> {}, raw |-> "", confidence_overall |-> 0, root_causes |-> <<>>,
     recommended_steps |-> <<>>, questions |-> <<>>, references |-> <<>>]

SuggestionWith(refs) ==
    [NoValue EXCEPT !.keys = SuggestionKeys, !.confidence_overall = 50,
                    !.root_causes = <<[evidence_refs |-> refs]>>,
                    !.recommended_steps = <<[evidence_refs |-> refs]>>]

SopDraftWith(refs) ==
    [NoValue EXCEPT !.keys = SopDraftKeys, !.references = refs]

RawValue(text) == [NoValue EXCEPT !.keys = {"raw"}, !.raw = text]

\* variant: the canned suggestion without its open question
CannedSuggestionNoQuestion ==
    [NoValue EXCEPT !.keys = SuggestionKeys, !.confidence_overall = 0]

CannedSuggestion ==
    [NoValue EXCEPT !.keys = SuggestionKeys, !.confidence_overall = 0,
                    !.root_causes = <<>>, !.recommended_steps = <<>>,
                    !.questions = <<"Add relevant prior resolutions/SOPs">>]

CannedSop == [NoValue EXCEPT !.keys = SopDraftKeys, !.references = <<>>]

\* message contents the endpoint can put into a 2xx answer
Contents ==
    {[text |-> "", syntax |-> "text", doc |-> NoValue],
     [text |-> " ", syntax |-> "text", doc |-> NoValue],
     [text |-> "Sure, here is", syntax |-> "text", doc |-> NoValue],
     [text |-> "{foo:1}", syntax |-> "json",
      doc |-> [NoValue EXCEPT !.keys = {"foo"}]],
     [text |-> "{suggestion,E1}", syntax |-> "json",
      doc |-> SuggestionWith(<<"E1">>)],
     [text |-> "{suggestion,E2,E9}", syntax |-> "json",
      doc |-> SuggestionWith(<<"E2", "E9">>)],
     [text |-> "{sop,E1}", syntax |-> "json", doc |-> SopDraftWith(<<"E1">>)],
     [text |-> "{sop,E9}", syntax |-> "json", doc |-> SopDraftWith(<<"E9">>)]}

IsBlank(text) == text \in {"", " "}

\* bodies of an HTTP answer: not JSON at all, or a JSON document with content
Bodies == {[json |-> FALSE, content |-> c] : c \in {CHOOSE c \in Contents : c.text = ""}}
            \cup {[json |-> TRUE, content |-> c] : c \in Contents}

Statuses == {200, 400, 500}

ResOk(status) == status >= 200 /\ status <= 299

NoError == [name |-> "none", status |-> 0, attempt |-> 0]

ErrorOf(name, status, k) == [name |-> name, status |-> status, attempt |-> k]

NoResult == [status |-> "none", evidence |-> <<>>, payload |-> NoValue,
             error |-> NoError]

NoHttp == [status |-> 0, keys |-> {}, ok |-> FALSE, evidence |-> <<>>,
           payload |-> NoValue]

\* filterSourceType of a search: a source type, or null
Filters == {"NULL", "ticket", "sop"}

NoReq == [role |-> "none", validJson |-> TRUE, required |-> <<>>,
          limit |-> [type |-> "undefined", value |-> 0], filter |-> "NULL"]

NoRpc == [called |-> FALSE, match_count |-> 0, filter |-> "NULL",
          results |-> <<>>]

\* supabase.rpc("rag_search", {match_count, filter_source_type, ...})
RpcOf(limit, filterSourceType, results) ==
    [called |-> TRUE, match_count |-> MatchCount(limit),
     filter |-> filterSourceType, results |-> results]

----------------------------------------------------------------------------
(* The LLM clients *)

\* JSON.parse(content): the parsed value, or a SyntaxError
JSONParses(content) == content.syntax = "json"

\* try { return JSON.parse(content) } catch { return {raw: content} }
ParseOrRaw(content) ==
    IF JSONParses(content) THEN content.doc ELSE RawValue(content.text)

Returned(value) == [kind |-> "return", value |-> value, error |-> NoError]
Thrown(err) == [kind |-> "throw", value |-> NoValue, error |-> err]

\* variant: JSON.parse(content) without the inner try / catch
chatCompletionTryNoFallback(status, body, k, json) ==
    IF ~ResOk(status) THEN Thrown(ErrorOf("Error", status, k))
    ELSE IF ~body.json THEN Thrown(ErrorOf("SyntaxError", status, k))
    ELSE IF json /\ ~JSONParses(body.content)
         THEN Thrown(ErrorOf("SyntaxError", status, k))
    ELSE IF json THEN Returned(body.content.doc)
    ELSE Returned(RawValue(body.content.text))

\* the try block of one chatCompletion attempt, given the endpoint's answer
chatCompletionTry(status, body, k, json) ==
    IF ~ResOk(status) THEN Thrown(ErrorOf("Error", status, k))
    ELSE IF ~body.json THEN Thrown(ErrorOf("SyntaxError", status, k))
    ELSE IF json THEN Returned(ParseOrRaw(body.content))
    ELSE Returned(RawValue(body.content.text))

\* the try block of ollamaChatJson, given the endpoint's answer
ollamaChatJsonTry(status, body, k) ==
    IF ~ResOk(status) THEN Thrown(ErrorOf("Error", status, k))
    ELSE IF ~body.json THEN Thrown(ErrorOf("SyntaxError", status, k))
    ELSE IF IsBlank(body.content.text) THEN Thrown(ErrorOf("Error", status, k))
    ELSE Returned(ParseOrRaw(body.content))

ClientTry(l, status, body, k) ==
    IF l = "localai" THEN chatCompletionTry(status, body, k, TRUE)
    ELSE ollamaChatJsonTry(status, body, k)

TimeoutOf(l) == IF l = "localai" THEN timeoutMs ELSE ollamaTimeoutMs

\* variant: no abort timer is armed
ArmTimerNot(tms, l, k) == tms

\* setTimeout(() => controller.abort(), timeoutMs)
ArmTimer(tms, l, k) == tms \cup {[attempt |-> k, ms |-> TimeoutOf(l)]}

\* variant: clearTimeout is missing
ClearTimerNot(tms, k) == tms

\* clearTimeout(timeout) of attempt k
ClearTimer(tms, k) == {t \in tms : t.attempt # k}

\* variant: only the first error is kept
NextLastErrorFirst(last, err) == IF last = NoError THEN err ELSE last

\* lastError = err
NextLastError(last, err) == err

\* for (...; attempt <= maxRetries; ...) with the wait "if (attempt < maxRetries)"
HasNextAttempt(k) == k < maxRetries

\* variant: the short circuit is missing
NoEvidenceNever(ev) == FALSE

\* if (evidence.length === 0) return <canned result>
NoEvidence(ev) == Len(ev) = 0

CannedFor(r) == IF r = "suggest" THEN CannedSuggestion ELSE CannedSop

Pending == [class |-> "pending", status |-> 0, bodyJson |-> FALSE,
            content |-> "", parses |-> FALSE]

\* what the endpoint answered: the body counts only under a 2xx status
Answered(status, body) ==
    IF ResOk(status) /\ body.json
    THEN [class |-> "http", status |-> status, bodyJson |-> TRUE,
          content |-> body.content.text,
          parses |-> body.content.syntax = "json"]
    ELSE [Pending EXCEPT !.class = "http", !.status = status]

\* the request of attempt k: built from the evidence block
LlmRequest(ev, k) ==
    [attempt |-> k, refs |-> [i \in 1..Len(ev) |-> ev[i].ref],
     outcome |-> Pending]

SetOutcome(log, o) == [log EXCEPT ![Len(log)].outcome = o]

----------------------------------------------------------------------------
(* Responses of the routes *)

\* NextResponse.json({ok: true, ...result})
HttpOk(res) ==
    [status |-> 200, keys |-> {"ok", "evidence", "payload", "model"},
     ok |-> TRUE, evidence |-> res.evidence, payload |-> res.payload]

\* NextResponse.json({ok: false, error: msg}, {status: 500})
HttpFailed ==
    [NoHttp EXCEPT !.status = 500, !.keys = {"ok", "error"}, !.ok = FALSE]

\* NextResponse.json({error: ...}, {status: 400})
HttpInvalid == [NoHttp EXCEPT !.status = 400, !.keys = {"error"}]

\* NextResponse.json(deny(...), {status: 403})
HttpDenied ==
    [NoHttp EXCEPT !.status = 403, !.keys = {"ok", "error"}, !.ok = FALSE]

ResultReturned(ev, value) ==
    [status |-> "returned", evidence |-> ev, payload |-> value,
     error |-> NoError]

ResultThrew(err) ==
    [status |-> "threw", evidence |-> <<>>, payload |-> NoValue,
     error |-> err]

\* NextResponse.json({ok: true, results})
HttpResults ==
    [NoHttp EXCEPT !.status = 200, !.keys = {"ok", "results"}, !.ok = TRUE]

\* try { result = await ai...(); return ok } catch { return 500 }
RouteAnswer(res) == IF res.status = "returned" THEN HttpOk(res) ELSE HttpFailed

----------------------------------------------------------------------------
(* Memory ingestion: chunkTextByChars and ragUpsert *)

NotGiven == [type |-> "undefined", value |-> 0]

\* f ?? d
NumberOr(f, d) == IF f.type = "number" THEN f.value ELSE d

\* maxChunkChars / overlapChars of a call: a number, or not given
PolicyFields == [type : {"number"}, value : 0..MaxPolicy] \cup {NotGiven}

ShortContents == UNION {[1..n -> Chars] : n \in 0..MaxContentLen}

\* content long enough to be split by the default policy
LongLens == {maxCharsDefault, maxCharsDefault + 1,
             2 * maxCharsDefault - overlapCharsDefault,
             2 * maxCharsDefault - overlapCharsDefault + 1}

LongContents == {[i \in 1..n |-> "a"] : n \in LongLens}

\* arguments of a single call: any policy, short and long content
ChunkInputs ==
    {i \in [sourceType : {"ticket"}, sourceId : {"INC-1"},
            title : {"VPN drops"}, content : ShortContents \cup LongContents,
            maxChunkChars : PolicyFields, overlapChars : PolicyFields] :
        i.content \in LongContents => i.maxChunkChars = NotGiven}

NoInput == [sourceType |-> "none", sourceId |-> "", title |-> "",
            content |-> <<>>, maxChunkChars |-> NotGiven,
            overlapChars |-> NotGiven]

\* variant: no overlap unless one is given
OverlapCharsOfNone(inp) == NumberOr(inp.overlapChars, 0)

\* input.maxChunkChars ?? 1400, input.overlapChars ?? 200
MaxCharsOf(inp) == NumberOr(inp.maxChunkChars, maxCharsDefault)
OverlapCharsOf(inp) == NumberOr(inp.overlapChars, overlapCharsDefault)

\* arguments of the calls made one after another: short content, and a
\* policy under which chunkTextByChars returns
UpsertInputs ==
    {i \in ChunkInputs :
        /\ i.content \in ShortContents
        /\ i.maxChunkChars = NotGiven => i.overlapChars = NotGiven
        /\ MaxCharsOf(i) >= 1
        /\ OverlapCharsOf(i) < MaxCharsOf(i)}

\* clean.slice(start, end), for 0 <= start
Slice(s, start, end) == SubSeq(s, start + 1, end)

\* variant: the window is one character too wide
WindowEndWide(start, maxChars, len) == Min(start + maxChars + 1, len)

\* const end = Math.min(start + maxChars, clean.length)
WindowEnd(start, maxChars, len) == Min(start + maxChars, len)

\* variant: the next window starts one character after the last one ended
NextStartSkip(end, overlapChars) == end + 1

\* start = Math.max(0, end - overlapChars)
NextStart(end, overlapChars) == Max(0, end - overlapChars)

\* if (chunk) chunks.push(chunk)
PushChunk(chunks, chunk) ==
    IF chunk # <<>> THEN Append(chunks, chunk) ELSE chunks

NoChunker == [clean |-> <<>>, start |-> 0, chunks |-> <<>>, windows |-> <<>>]

NoRet == [status |-> "none", chunksUpserted |-> 0, writes |-> 0]

\* variant: the early return is missing
NoChunksNever(chunks) == FALSE

\* if (chunks.length === 0) return {chunksUpserted: 0}
NoChunks(chunks) == Len(chunks) = 0

\* variant: no conflict target, every row is inserted
SameKeyNever(r, q) == FALSE

\* rag_items_source_unique: (source_type, source_id, chunk_index)
SameKey(r, q) ==
    /\ r.source_type = q.source_type
    /\ r.source_id = q.source_id
    /\ r.chunk_index = q.chunk_index

\* the rows built by chunks.map((chunk, i) => ...), i from 0; metadata and
\* embedding, which the argument and the chunk determine, are left out
UpsertRows(inp, chunks) ==
    [k \in 1..Len(chunks) |->
        [source_type |-> inp.sourceType, source_id |-> inp.sourceId,
         chunk_index |-> k - 1, title |-> inp.title, content |-> chunks[k]]]

MaxId(S) ==
    IF S = {} THEN 0 ELSE CHOOSE m \in {r.id : r \in S} : \A r \in S : r.id <= m

\* .upsert(rows, {onConflict: "source_type,source_id,chunk_index"}): a row
\* with the key of a stored row replaces its columns and keeps its id, any
\* other row is inserted with a new id
Upsert(S, rows) ==
    LET Hit(k) == {r \in S : SameKey(r, rows[k])}
        fresh == {k \in 1..Len(rows) : Hit(k) = {}}
        IdOf(k) == IF k \in fresh
                   THEN MaxId(S) + Cardinality({j \in fresh : j <= k})
                   ELSE (CHOOSE r \in Hit(k) : TRUE).id
    IN  {r \in S : \A k \in 1..Len(rows) : ~SameKey(r, rows[k])}
          \cup {[id |-> IdOf(k), source_type |-> rows[k].source_type,
                 source_id |-> rows[k].source_id,
                 chunk_index |-> rows[k].chunk_index,
                 title |-> rows[k].title, content |-> rows[k].content] :
                  k \in 1..Len(rows)}

\* a row stored earlier for another source
SopRow == [id |-> 1, source_type |-> "sop", source_id |-> "SOP-1",
           chunk_index |-> 0, title |-> "VPN runbook", content |-> <<"a">>]

RagIdle ==
    /\ upc = "idle"
    /\ input = NoInput
    /\ chunker = NoChunker
    /\ ret = NoRet
    /\ before = {}
    /\ again = FALSE

\* chunkTextByChars returns to ragUpsert
Chunked(ck) ==
    /\ chunker' = ck
    /\ IF NoChunks(ck.chunks)
       THEN /\ upc' = "done"
            /\ ret' = [NoRet EXCEPT !.status = "returned"]
       ELSE /\ upc' = "writing"
            /\ ret' = NoRet
    /\ UNCHANGED rag_items

\* ragUpsert is entered: chunkTextByChars up to its loop
Enter(inp, rep) ==
    /\ input' = inp
    /\ again' = rep
    /\ before' = rag_items
    /\ LET clean == Trim(inp.content)
       IN  IF clean = <<>> THEN Chunked(NoChunker)
           ELSE IF Len(clean) <= MaxCharsOf(inp)
           THEN Chunked([NoChunker EXCEPT !.clean = clean,
                            !.chunks = <<clean>>,
                            !.windows = <<[start |-> 0, end |-> Len(clean)]>>])
           ELSE /\ chunker' = [NoChunker EXCEPT !.clean = clean]
                /\ upc' = "loop"
                /\ ret' = NoRet
                /\ UNCHANGED rag_items

RagUpsertCall(inp) ==
    /\ upc = "idle"
    /\ Enter(inp, FALSE)

\* one iteration of while (start < clean.length); the memory of the process
\* ends a loop that never returns
ChunkLoop ==
    /\ upc = "loop"
    /\ Len(chunker.windows) <= Len(chunker.clean)
    /\ LET clean == chunker.clean
           start == chunker.start
           end == WindowEnd(start, MaxCharsOf(input), Len(clean))
           chunk == Trim(Slice(clean, start, end))
           pushed == [chunker EXCEPT
                        !.chunks = PushChunk(@, chunk),
                        !.windows = Append(@, [start |-> start, end |-> end])]
       IN  IF ~(start < Len(clean)) THEN Chunked(chunker)
           ELSE IF end >= Len(clean) THEN Chunked(pushed)
           ELSE /\ chunker' = [pushed EXCEPT
                                 !.start = NextStart(end, OverlapCharsOf(input))]
                /\ UNCHANGED <<upc, ret, rag_items>>
    /\ UNCHANGED <<input, before, again>>

\* the store applies the upsert statement
UpsertOk ==
    /\ upc = "writing"
    /\ rag_items' = Upsert(rag_items, UpsertRows(input, chunker.chunks))
    /\ ret' = [status |-> "returned", chunksUpserted |-> Len(chunker.chunks),
               writes |-> 1]
    /\ upc' = "done"
    /\ UNCHANGED <<input, chunker, before, again>>

\* the store answers with an error: throw new Error(error.message)
UpsertError ==
    /\ upc = "writing"
    /\ ret' = [status |-> "threw", chunksUpserted |-> 0, writes |-> 1]
    /\ upc' = "done"
    /\ UNCHANGED <<rag_items, input, chunker, before, again>>

\* the caller calls ragUpsert again with the same argument
CallAgain ==
    /\ upc = "done"
    /\ ret.status = "returned"
    /\ ~again
    /\ Enter(input, TRUE)

\* the call is over and its locals are gone
CallEnds ==
    /\ upc = "done"
    /\ upc' = "idle"
    /\ input' = NoInput
    /\ chunker' = NoChunker
    /\ ret' = NoRet
    /\ before' = {}
    /\ again' = FALSE
    /\ UNCHANGED rag_items

----------------------------------------------------------------------------
(* The status route of a ticket *)

\* isTicketStatus
TicketStatuses == {"Open", "In Progress", "Resolved", "Closed"}

\* body.status: a string, or something else / missing
StatusFields == [type : {"string"}, value : TicketStatuses \cup {"Done"}]
                  \cup {[type |-> "undefined", value |-> ""]}

\* a row of public.tickets; "NULL" and 0 stand for null
TicketRow(ext) ==
    [id |-> "uuid-1", external_id |-> ext, title |-> "a", description |-> "a",
     resolution_notes |-> "a", type |-> "a", status |-> "Open",
     priority |-> "a", service |-> "a", site |-> "a", topics |-> "a",
     updated_at |-> 0, resolved_at |-> 0, closed_at |-> 0]

NoTreq == [pc |-> "idle", method |-> "none", role |-> "none", id |-> "",
           body |-> <<>>, nextStatus |-> "",
           existing |-> TicketRow("NULL"), persisted |-> FALSE,
           event |-> <<>>, audit |-> FALSE, upserts |-> <<>>, threw |-> FALSE,
           status |-> 0, ok |-> FALSE]

TktIdle ==
    /\ impl = "route"
    /\ tickets = {}
    /\ clock = 0
    /\ treq = <<NoTreq, NoTreq>>

\* the row after .update(patch): status, and the timestamps not yet set;
\* the trigger tickets_set_updated_at sets updated_at
Patched(t, existing, nextStatus, now) ==
    [t EXCEPT !.status = nextStatus,
              !.updated_at = now,
              !.resolved_at = IF nextStatus = "Resolved"
                                   /\ existing.resolved_at = 0
                              THEN now ELSE @,
              !.closed_at = IF nextStatus = "Closed" /\ existing.closed_at = 0
                            THEN now ELSE @]

\* variant: always the row id
SourceIdOfId(t) == t.id

\* updated.external_id ?? updated.id
SourceIdOf(t) == IF t.external_id # "NULL" THEN t.external_id ELSE t.id

\* the argument of ragUpsert; the content, contentParts.join("\n"), begins
\* with "Title: " and is never blank
TicketUpsertInput(t) ==
    [sourceType |-> "ticket", sourceId |-> SourceIdOf(t),
     title |-> "VPN drops", content |-> <<"a", " ", "a">>,
     maxChunkChars |-> NotGiven, overlapChars |-> NotGiven]

\* POST /api/tickets/[id]/status, up to the select; the actor is read by
\* getActorContext (status/route.ts) and its role is not looked at
StatusPOST(s, role, id, validJson, status) ==
    /\ treq[s].pc = "idle"
    /\ clock < MaxClock
    /\ clock' = clock + 1
    /\ LET nextStatus == IF status.type = "string" THEN status.value ELSE ""
       IN  treq' = [treq EXCEPT ![s] =
                       IF ~validJson \/ nextStatus \notin TicketStatuses
                       THEN [NoTreq EXCEPT !.pc = "done", !.method = "POST",
                                           !.role = role, !.id = id,
                                           !.status = 400]
                       ELSE [NoTreq EXCEPT !.pc = "selecting",
                                           !.method = "POST", !.role = role,
                                           !.id = id,
                                           !.nextStatus = nextStatus]]
    /\ UNCHANGED <<impl, tickets>>

\* .select("*").eq("id", id).single() answers
SelectTicket(s, storeOk) ==
    /\ treq[s].pc = "selecting"
    /\ LET found == {t \in tickets : t.id = treq[s].id}
       IN  treq' = [treq EXCEPT ![s] =
                       IF ~storeOk \/ found = {}
                       THEN [treq[s] EXCEPT !.pc = "done", !.status = 404]
                       ELSE [treq[s] EXCEPT
                               !.pc = "updating",
                               !.existing = CHOOSE t \in found : TRUE]]
    /\ UNCHANGED <<impl, tickets, clock>>

\* .update(patch).eq("id", id).select("*").single() answers; then the
\* ticket_events row and the audit log are written and, for Resolved,
\* ragUpsert is called; the ragUpsert calls are taken one at a time
UpdateTicket(s, storeOk) ==
    /\ treq[s].pc = "updating"
    /\ treq[s].nextStatus = "Resolved" => upc = "idle"
    /\ LET found == {t \in tickets : t.id = treq[s].id}
           updated == Patched(CHOOSE t \in found : TRUE, treq[s].existing,
                              treq[s].nextStatus, clock)
           logged == [treq[s] EXCEPT
                        !.persisted = TRUE,
                        !.audit = impl = "route",
                        !.event = <<[from_status |-> treq[s].existing.status,
                                     to_status |-> treq[s].nextStatus]>>]
       IN  IF ~storeOk \/ found = {}
           THEN /\ treq' = [treq EXCEPT ![s] =
                               [treq[s] EXCEPT !.pc = "done", !.status = 500]]
                /\ UNCHANGED <<tickets, rag_items, ragVars>>
           ELSE /\ tickets' = (tickets \ found) \cup {updated}
                /\ IF treq[s].nextStatus = "Resolved"
                   THEN /\ treq' = [treq EXCEPT ![s] = [logged EXCEPT
                                      !.pc = "upserting",
                                      !.upserts =
                                          <<[sourceType |-> "ticket",
                                             sourceId |-> SourceIdOf(updated)]>>]]
                        /\ Enter(TicketUpsertInput(updated), FALSE)
                   ELSE /\ treq' = [treq EXCEPT ![s] =
                                       [logged EXCEPT !.pc = "done",
                                          !.status = 200, !.ok = TRUE]]
                        /\ UNCHANGED <<rag_items, ragVars>>
    /\ UNCHANGED <<impl, clock>>

\* ragUpsert returned or threw: the route of status/route.ts catches and
\* logs the error, the one of part_003 lets it escape the handler
AfterUpsert(s) ==
    /\ treq[s].pc = "upserting"
    /\ treq' = [treq EXCEPT ![s] =
                   IF ret.status = "threw" /\ impl = "part_003"
                   THEN [treq[s] EXCEPT !.pc = "done", !.threw = TRUE,
                                        !.status = 500]
                   ELSE [treq[s] EXCEPT !.pc = "done",
                                        !.threw = ret.status = "threw",
                                        !.status = 200, !.ok = TRUE]]
    /\ CallEnds
    /\ UNCHANGED <<impl, tickets, clock>>

\* the response is sent
StatusEnds(s) ==
    /\ treq[s].pc = "done"
    /\ treq' = [treq EXCEPT ![s] = NoTreq]
    /\ UNCHANGED <<impl, tickets, clock>>

----------------------------------------------------------------------------
(* The PATCH route of a ticket *)

\* variant: status is patchable too
allowedFieldsAndStatus ==
    <<"title", "description", "resolutionNotes", "type", "priority",
      "service", "site", "topics", "status">>

allowedFields ==
    <<"title", "description", "resolutionNotes", "type", "priority",
      "service", "site", "topics">>

\* const dbField = f === "resolutionNotes" ? "resolution_notes" : f
DbField(f) == IF f = "resolutionNotes" THEN "resolution_notes" ELSE f

\* request bodies: objects that supply up to MaxSupplied of these keys, three
\* of them allowed fields and two not
PatchBodies ==
    LET keys == {"title", "resolutionNotes", "topics", "status", "resolved_at"}
    IN  UNION {[S -> {"a", "b"}] :
                  S \in {K \in SUBSET keys : Cardinality(K) <= MaxSupplied}}

\* PATCH /api/tickets/[id]: the whole handler, the select of the row and its
\* update taken together
TicketPATCH(s, role, id, validJson, body, storeOk) ==
    /\ treq[s].pc = "idle"
    /\ clock < MaxClock
    /\ clock' = clock + 1
    /\ LET found == {t \in tickets : t.id = id}
           rq == [NoTreq EXCEPT !.pc = "done", !.method = "PATCH",
                                !.role = role, !.id = id,
                                !.body = IF validJson THEN body ELSE <<>>]
           answer(st) == treq' = [treq EXCEPT ![s] = [rq EXCEPT !.status = st]]
       IN  IF ~canWrite(role) THEN answer(403) /\ UNCHANGED tickets
           ELSE IF ~validJson THEN answer(400) /\ UNCHANGED tickets
           ELSE IF found = {} THEN answer(404) /\ UNCHANGED tickets
           ELSE
             LET row == CHOOSE t \in found : TRUE
                 fieldsChanged ==
                     SelectSeq(allowedFields,
                               LAMBDA f : /\ f \in DOMAIN body
                                          /\ body[f] # row[DbField(f)])
                 cols == {DbField(fieldsChanged[i]) :
                             i \in DOMAIN fieldsChanged}
                 updated ==
                     [c \in DOMAIN row |->
                         IF c \in cols
                         THEN body[CHOOSE f \in DOMAIN body : DbField(f) = c]
                         ELSE IF c = "updated_at" THEN clock'
                         ELSE row[c]]
             IN  IF Len(fieldsChanged) = 0
                 THEN /\ treq' = [treq EXCEPT ![s] =
                                     [rq EXCEPT !.existing = row,
                                                !.status = 200, !.ok = TRUE]]
                      /\ UNCHANGED tickets
                 ELSE IF ~storeOk THEN answer(500) /\ UNCHANGED tickets
                 ELSE /\ tickets' = (tickets \ found) \cup {updated}
                      /\ treq' = [treq EXCEPT ![s] =
                                     [rq EXCEPT
                                        !.existing = row,
                                        !.persisted = TRUE,
                                        !.event = <<[event_type |-> "updated",
                                                     fields |-> fieldsChanged]>>,
                                        !.audit = TRUE,
                                        !.status = 200, !.ok = TRUE]]
    /\ UNCHANGED impl

----------------------------------------------------------------------------
(* The embedding of a text *)

embeddingDim == 384

\* new Map<string, Bucket>(), at time 0, nothing let through yet; the keys
\* are one address and the "unknown" of a request without one
NoLim ==
    LET Ips == {"10.0.0.1", "unknown"}
    IN  [now |-> 0, ticks |-> 0,
         buckets |-> [ip \in Ips |->
                         [has |-> FALSE, count |-> 0, resetAt |-> 0]],
         recent |-> [ip \in Ips |-> <<>>], other |-> 0,
         ip |-> "none", allowed |-> FALSE, status |-> 0]

\* no run of syncGitHubIssues
NoSync ==
    [pc |-> "idle", log |-> "none", items_processed |-> 0, issues |-> <<>>,
     i |-> 0, processedCount |-> 0, upserted |-> 0, outcome |-> "none"]

\* no user, no registration request
NoAuth ==
    LET none == [pc |-> "idle", route |-> "none", actor |-> "none",
                 username |-> "", userCount |-> 0, role |-> "none",
                 status |-> 0]
    IN  [users |-> {}, regs |-> <<none, none>>]

NoEmb == [pc |-> "idle", text |-> <<>>, vector |-> <<>>, magSq |-> 0,
          pgvector |-> "none"]

AuxIdle ==
    /\ scene = "none"
    /\ emb = NoEmb
    /\ srch = [pc |-> "idle", module |-> "none", data |-> <<>>, out |-> <<>>]
    /\ auth = NoAuth
    /\ lim = NoLim
    /\ sync = NoSync

\* variant: the position is used as it is, from 0
BucketFromZero(charCode, i) == (charCode * i) % embeddingDim

\* const bucket = (charCode * (i + 1)) % 384, i from 0
Bucket(charCode, i) == (charCode * (i + 1)) % embeddingDim

\* embedTextToVector384, before the division by mag: the vector (bucket b at
\* index b + 1) and the square of mag
embedTextToVector384(text) ==
    LET charCodeAt(c) == CASE c = " " -> 32 [] c = "A" -> 65
                           [] c = "a" -> 97 [] c = "b" -> 98
        toLowerCase(t) == [k \in DOMAIN t |-> IF t[k] = "A" THEN "a" ELSE t[k]]
        norm == Trim(toLowerCase(text))
        RECURSIVE loop(_, _)
        loop(vector, i) ==
            IF ~(i < Len(norm)) THEN vector
            ELSE loop([vector EXCEPT
                         ![Bucket(charCodeAt(norm[i + 1]), i) + 1] = @ + 1],
                      i + 1)
        vector == loop([b \in 1..embeddingDim |-> 0], 0)
        \* vector.reduce((sum, val) => sum + val * val, 0), summed by halves
        RECURSIVE reduce(_, _)
        reduce(lo, hi) ==
            IF lo = hi THEN vector[lo] * vector[lo]
            ELSE LET mid == (lo + hi) \div 2
                 IN  reduce(lo, mid) + reduce(mid + 1, hi)
        sumSq == reduce(1, Len(vector))
    IN  [vector |-> vector, magSq |-> IF sumSq = 0 THEN 1 ELSE sumSq]

\* vectorToPgVectorString(await embedTextToVector384(text))
EmbedCall ==
    /\ scene = "embed"
    /\ emb.pc = "idle"
    /\ LET e == embedTextToVector384(emb.text)
       IN  emb' = [emb EXCEPT !.pc = "done", !.vector = e.vector,
                              !.magSq = e.magSq,
                              !.pgvector = IF Len(e.vector) # embeddingDim
                                           THEN "threw" ELSE "string"]
    /\ UNCHANGED <<scene, srch, auth, lim, sync>>

----------------------------------------------------------------------------
(* ragSearch of src/lib/rag.ts and of src/lib/metrics.ts *)

\* results.map((row) => ({..., score: row.similarity})): a property the row
\* does not have reads as undefined
ragSearchMapped(results) ==
    [k \in DOMAIN results |->
        [source_type |-> results[k].source_type,
         source_id |-> results[k].source_id,
         chunk_index |-> results[k].chunk_index,
         score |-> IF "similarity" \in DOMAIN results[k]
                   THEN Number(results[k].similarity) ELSE NotGiven]]

\* ragSearch({query, limit, filterSourceType}) of the module m resolves
RagSearchCall(m, limit, filterSourceType, results) ==
    /\ scene = "search"
    /\ srch.pc = "idle"
    /\ results \in rag_search(rag_items, MatchCount(limit), filterSourceType)
    /\ srch' = [pc |-> "done", module |-> m, data |-> results,
                out |-> IF m = "metrics.ts" THEN ragSearchMapped(results)
                        ELSE [k \in DOMAIN results |->
                                 [results[k] EXCEPT !.score = Number(@)]]]
    /\ UNCHANGED <<scene, emb, auth, lim, sync>>

----------------------------------------------------------------------------
(* Registration of local users: src/app/api/auth/register/route.ts and the
   version of src/app/api/auth/me/route.ts *)

\* POST up to the decision of the role: the body is read, countLocalUsers
\* answers; an actor is an Admin only when an Admin exists
RegisterCount(r, version, actor, validBody, username, roleRaw) ==
    /\ scene = "register"
    /\ auth.regs[r].pc = "idle"
    /\ actor = "Admin" => \E u \in auth.users : u.role = "Admin"
    /\ LET userCount == Cardinality(auth.users)
           rq == [pc |-> "creating", route |-> version, actor |-> actor,
                  username |-> username, userCount |-> userCount,
                  role |-> "Viewer", status |-> 0]
           isRole == roleRaw \in Roles
       IN  auth' = [auth EXCEPT !.regs[r] =
                IF ~validBody
                THEN [rq EXCEPT !.pc = "done", !.userCount = 0, !.status = 400]
                ELSE IF userCount = 0 THEN [rq EXCEPT !.role = "Admin"]
                ELSE IF actor = "Admin"
                THEN [rq EXCEPT !.role = IF isRole THEN roleRaw ELSE "Viewer"]
                ELSE IF version = "me"
                THEN [rq EXCEPT !.pc = "done", !.status = 403]
                ELSE rq]
    /\ UNCHANGED <<scene, emb, srch, lim, sync>>

\* createLocalUser answers: the local_users row (username unique), then the
\* user_roles row; an error is answered 500
RegisterCreate(r, insertOk, roleOk) ==
    /\ scene = "register"
    /\ auth.regs[r].pc = "creating"
    /\ LET rq == auth.regs[r]
           taken == \E u \in auth.users : u.username = rq.username
           user == [username |-> rq.username,
                    role |-> IF roleOk THEN rq.role ELSE "NULL",
                    by |-> rq.actor]
       IN  IF ~insertOk \/ taken
           THEN auth' = [auth EXCEPT !.regs[r].pc = "done",
                                     !.regs[r].status = 500]
           ELSE auth' = [auth EXCEPT
                           !.users = @ \cup {user},
                           !.regs[r].pc = "done",
                           !.regs[r].status = IF roleOk THEN 200 ELSE 500]
    /\ UNCHANGED <<scene, emb, srch, lim, sync>>

----------------------------------------------------------------------------
(* The client-log route and its rate limit *)

\* allow(ip) at time now: the answer and the buckets after it
allow(buckets, ip, now) ==
    LET b == buckets[ip]
    IN  IF ~b.has \/ now >= b.resetAt
        THEN [ok |-> TRUE,
              buckets |-> [buckets EXCEPT ![ip] =
                             [has |-> TRUE, count |-> 1,
                              resetAt |-> now + windowMs]]]
        ELSE IF b.count >= rateLimit
        THEN [ok |-> FALSE, buckets |-> buckets]
        ELSE [ok |-> TRUE,
              buckets |-> [buckets EXCEPT ![ip].count = @ + 1]]

\* POST of the client-log route; recent counts, per time, the requests of
\* each ip that allow let through
ClientLogPOST(ip, aborted, validBody) ==
    /\ scene = "client-log"
    /\ ip # "10.0.0.1" => lim.other < MaxOther
    /\ LET a == allow(lim.buckets, ip, lim.now)
           seen == lim.recent[ip]
           last == Len(seen)
           counted == IF last > 0 /\ seen[last].at = lim.now
                      THEN [seen EXCEPT ![last].n = @ + 1]
                      ELSE Append(seen, [at |-> lim.now, n |-> 1])
           met == [lim EXCEPT !.ip = ip,
                              !.other = IF ip # "10.0.0.1" THEN @ + 1 ELSE @]
       IN  lim' = IF aborted
                  THEN [met EXCEPT !.allowed = FALSE, !.status = 204]
                  ELSE IF ~a.ok
                  THEN [met EXCEPT !.allowed = FALSE, !.status = 429]
                  ELSE [met EXCEPT !.buckets = a.buckets,
                                   !.recent[ip] = counted,
                                   !.allowed = TRUE,
                                   !.status = IF validBody THEN 204 ELSE 400]
    /\ UNCHANGED <<scene, emb, srch, auth, sync>>

\* Date.now() moves on, to the last millisecond of a minute or to the next
\* one; what was let through a minute ago or earlier is forgotten
Tick ==
    /\ scene = "client-log"
    /\ lim.ticks < MaxTicks
    /\ LET now == lim.now + (IF lim.now % windowMs = 0
                             THEN windowMs - 1 ELSE 1)
       IN  lim' = [lim EXCEPT
                     !.now = now,
                     !.ticks = @ + 1,
                     !.recent = [ip \in DOMAIN lim.recent |->
                                   SelectSeq(lim.recent[ip],
                                             LAMBDA e : now - e.at < windowMs)]]
    /\ UNCHANGED <<scene, emb, srch, auth, sync>>

----------------------------------------------------------------------------
(* syncGitHubIssues *)

\* the run up to the loop: the sync_logs row is inserted, the issues are
\* fetched; an error of the fetch goes to the catch block, which updates the
\* row and rethrows
SyncStart(issues, insertOk, resOk, updateOk) ==
    /\ scene = "sync"
    /\ sync.pc = "idle"
    /\ sync' = IF ~insertOk
               THEN [NoSync EXCEPT !.pc = "done", !.outcome = "threw"]
               ELSE IF ~resOk
               THEN [NoSync EXCEPT !.pc = "done", !.outcome = "threw",
                                   !.log = IF updateOk THEN "failed"
                                           ELSE "running"]
               ELSE [NoSync EXCEPT !.pc = "loop", !.log = "running",
                                   !.issues = issues, !.i = 1]
    /\ UNCHANGED <<scene, emb, srch, auth, lim>>

\* for (const issue of issues): a pull request is skipped, an issue is handed
\* to ragUpsert; after the last one the row is updated and the run returns
SyncIssue(updateOk) ==
    /\ scene = "sync"
    /\ sync.pc = "loop"
    /\ IF sync.i > Len(sync.issues)
       THEN /\ sync' = [sync EXCEPT
                          !.pc = "done",
                          !.outcome = "returned",
                          !.log = IF updateOk THEN "completed" ELSE @,
                          !.items_processed =
                              IF updateOk THEN sync.processedCount ELSE @]
            /\ UNCHANGED <<rag_items, ragVars>>
       ELSE IF sync.issues[sync.i].pull_request
       THEN /\ sync' = [sync EXCEPT !.i = @ + 1]
            /\ UNCHANGED <<rag_items, ragVars>>
       ELSE /\ sync' = [sync EXCEPT !.pc = "upserting"]
            /\ Enter([sourceType |-> "github_issue",
                      sourceId |-> sync.issues[sync.i].id,
                      title |-> "VPN drops", content |-> <<"a", " ", "a">>,
                      maxChunkChars |-> NotGiven, overlapChars |-> NotGiven],
                     FALSE)
    /\ UNCHANGED <<scene, emb, srch, auth, lim>>

\* ragUpsert returned: processedCount++; or it threw: the catch block
\* updates the row and rethrows
SyncAfterUpsert(updateOk) ==
    /\ scene = "sync"
    /\ sync.pc = "upserting"
    /\ sync' = IF ret.status = "threw"
               THEN [sync EXCEPT !.pc = "done", !.outcome = "threw",
                                 !.log = IF updateOk THEN "failed" ELSE @]
               ELSE [sync EXCEPT !.pc = "loop", !.i = @ + 1,
                                 !.processedCount = @ + 1,
                                 !.upserted = @ + 1]
    /\ CallEnds
    /\ UNCHANGED <<scene, emb, srch, auth, lim>>

----------------------------------------------------------------------------
(* State machine of one request at a time *)

Libs == {"localai", "ollama"}

Init ==
    /\ lib \in Libs
    /\ rag_items \in Stores
    /\ pc = "idle"
    /\ route = "none"
    /\ evidence = <<>>
    /\ attempt = 0
    /\ timers = {}
    /\ lastError = NoError
    /\ llmLog = <<>>
    /\ result = NoResult
    /\ http = NoHttp
    /\ req = NoReq
    /\ rpc = NoRpc
    /\ RagIdle
    /\ TktIdle
    /\ AuxIdle

\* a request that is answered before aiSuggest / aiSopDraft is called
Rejected(r, answer) ==
    /\ pc' = "done"
    /\ route' = r
    /\ http' = answer
    /\ evidence' = <<>>
    /\ attempt' = 0
    /\ lastError' = NoError
    /\ llmLog' = <<>>
    /\ result' = NoResult
    /\ rpc' = NoRpc
    /\ UNCHANGED <<lib, rag_items, timers>>

\* a request that reaches aiSuggest / aiSopDraft (await retrieveEvidence(...))
\* or, in the rag-search route, ragSearch
Accepted(r) ==
    /\ pc' = IF r = "search" THEN "searching" ELSE "retrieving"
    /\ route' = r
    /\ http' = NoHttp
    /\ evidence' = <<>>
    /\ attempt' = 0
    /\ lastError' = NoError
    /\ llmLog' = <<>>
    /\ result' = NoResult
    /\ rpc' = NoRpc
    /\ UNCHANGED <<lib, rag_items, timers>>

\* POST /api/ai/suggest
SuggestPOST(validJson, title) ==
    /\ pc = "idle"
    /\ req' = [NoReq EXCEPT !.validJson = validJson, !.required = <<title>>]
    /\ IF ~validJson THEN Rejected("suggest", HttpInvalid)
       ELSE IF Trim(StringOrEmpty(title)) = <<>>
            THEN Rejected("suggest", HttpInvalid)
            ELSE Accepted("suggest")

\* POST /api/ai/sop-draft
SopDraftPOST(role, validJson, ticketTitle, resolutionNotes) ==
    /\ pc = "idle"
    /\ req' = [NoReq EXCEPT !.role = role, !.validJson = validJson,
                            !.required = <<ticketTitle, resolutionNotes>>]
    /\ IF ~canWrite(role) THEN Rejected("sop", HttpDenied)
       ELSE IF ~validJson THEN Rejected("sop", HttpInvalid)
       ELSE IF Trim(StringOrEmpty(ticketTitle)) = <<>>
                 \/ Trim(StringOrEmpty(resolutionNotes)) = <<>>
            THEN Rejected("sop", HttpInvalid)
            ELSE Accepted("sop")

\* POST of the rag-search route
RagSearchPOST(validJson, query, limit, filterSourceType) ==
    /\ pc = "idle"
    /\ req' = [NoReq EXCEPT !.validJson = validJson, !.required = <<query>>,
                            !.limit = limit, !.filter = filterSourceType]
    /\ IF ~validJson THEN Rejected("search", HttpInvalid)
       ELSE IF Trim(StringOrEmpty(query)) = <<>>
            THEN Rejected("search", HttpInvalid)
            ELSE Accepted("search")

\* ragSearch throws: the rag-search route answers 500
SearchFail ==
    /\ pc = "searching"
    /\ pc' = "done"
    /\ rpc' = RpcOf(req.limit, req.filter, <<>>)
    /\ http' = HttpFailed
    /\ UNCHANGED <<lib, rag_items, route, evidence, attempt, timers,
                   lastError, llmLog, result, req>>

\* ragSearch resolves: the rag-search route answers with the rows
SearchOk(results) ==
    /\ pc = "searching"
    /\ results \in ragSearch(rag_items, req.limit, req.filter)
    /\ pc' = "done"
    /\ rpc' = RpcOf(req.limit, req.filter, results)
    /\ http' = HttpResults
    /\ UNCHANGED <<lib, rag_items, route, evidence, attempt, timers,
                   lastError, llmLog, result, req>>

\* the call ends: aiSuggest / aiSopDraft returns or throws, the route answers
Finish(res, tms) ==
    /\ pc' = "done"
    /\ result' = res
    /\ http' = RouteAnswer(res)
    /\ timers' = tms

\* ragSearch throws (store error): aiSuggest / aiSopDraft rejects
RetrieveFail ==
    /\ pc = "retrieving"
    /\ Finish(ResultThrew(ErrorOf("StoreError", 0, 0)), timers)
    /\ req' = NoReq
    /\ rpc' = RpcOf(Number(RouteLimit(route)), "NULL", <<>>)
    /\ UNCHANGED <<lib, rag_items, route, evidence, attempt, lastError, llmLog>>

\* retrieveEvidence resolves: canned result, or the first LLM request is sent
RetrieveOk(ev) ==
    /\ pc = "retrieving"
    /\ ev \in retrieveEvidence(rag_items, RouteLimit(route))
    /\ evidence' = ev
    /\ IF NoEvidence(ev)
       THEN /\ Finish(ResultReturned(<<>>, CannedFor(route)), timers)
            /\ UNCHANGED <<attempt, llmLog>>
       ELSE /\ pc' = "fetching"
            /\ attempt' = 1
            /\ timers' = ArmTimer(timers, lib, 1)
            /\ llmLog' = <<LlmRequest(ev, 1)>>
            /\ UNCHANGED <<result, http>>
    /\ req' = NoReq
    /\ rpc' = RpcOf(Number(RouteLimit(route)), "NULL", ev)
    /\ UNCHANGED <<lib, rag_items, route, lastError>>

\* the catch block (chatCompletion) or the propagation (ollamaChatJson) of
\* an error of the current attempt, followed by finally { clearTimeout }
Caught(err, tms) ==
    IF lib = "localai"
    THEN /\ lastError' = NextLastError(lastError, err)
         /\ IF HasNextAttempt(attempt)
            THEN /\ pc' = "backoff"
                 /\ timers' = tms
                 /\ UNCHANGED <<result, http>>
            ELSE Finish(ResultThrew(lastError'), ClearTimer(tms, attempt))
    ELSE /\ Finish(ResultThrew(err), ClearTimer(tms, attempt))
         /\ UNCHANGED lastError

\* the endpoint answers the request in flight
Respond(status, body) ==
    /\ pc = "fetching"
    /\ LET out == ClientTry(lib, status, body, attempt)
       IN  /\ llmLog' = SetOutcome(llmLog, Answered(status, body))
           /\ IF out.kind = "return"
              THEN /\ Finish(ResultReturned(evidence, out.value),
                             ClearTimer(timers, attempt))
                   /\ UNCHANGED lastError
              ELSE Caught(out.error, timers)
    /\ UNCHANGED <<lib, rag_items, route, evidence, attempt, req, rpc>>

\* fetch rejects: the endpoint is unreachable or the connection breaks
NetworkError ==
    /\ pc = "fetching"
    /\ llmLog' = SetOutcome(llmLog, [Pending EXCEPT !.class = "network"])
    /\ Caught(ErrorOf("TypeError", 0, attempt), timers)
    /\ UNCHANGED <<lib, rag_items, route, evidence, attempt, req, rpc>>

\* an armed abort timer fires: controller.abort() of that attempt
TimerFire(t) ==
    /\ t \in timers
    /\ IF pc = "fetching" /\ t.attempt = attempt
       THEN /\ llmLog' = SetOutcome(llmLog, [Pending EXCEPT !.class = "abort"])
            /\ Caught(ErrorOf("AbortError", 0, attempt), timers \ {t})
       ELSE /\ timers' = timers \ {t}
            /\ UNCHANGED <<pc, lastError, llmLog, result, http>>
    /\ UNCHANGED <<lib, rag_items, route, evidence, attempt, req, rpc>>

\* the wait of 1000 * attempt ms ends: finally { clearTimeout }, next attempt
BackoffDone ==
    /\ pc = "backoff"
    /\ pc' = "fetching"
    /\ attempt' = attempt + 1
    /\ timers' = ArmTimer(ClearTimer(timers, attempt), lib, attempt + 1)
    /\ llmLog' = Append(llmLog, LlmRequest(evidence, attempt + 1))
    /\ UNCHANGED <<lib, rag_items, route, evidence, lastError, result, http,
                   req, rpc>>

\* the response is sent and the handler's locals are gone
RequestEnds ==
    /\ pc = "done"
    /\ pc' = "idle"
    /\ route' = "none"
    /\ evidence' = <<>>
    /\ attempt' = 0
    /\ lastError' = NoError
    /\ llmLog' = <<>>
    /\ result' = NoResult
    /\ http' = NoHttp
    /\ req' = NoReq
    /\ rpc' = NoRpc
    /\ UNCHANGED <<lib, rag_items, timers>>

Next ==
    \/ \E v \in BOOLEAN, t \in BodyFields :
          SuggestPOST(v, t) /\ UNCHANGED <<ragVars, tktVars, auxVars>>
    \/ \E r \in Roles, v \in BOOLEAN, t \in BodyFields, n \in BodyFields :
          SopDraftPOST(r, v, t, n) /\ UNCHANGED <<ragVars, tktVars, auxVars>>
    \/ \E v \in BOOLEAN, q \in BodyFields, l \in LimitFields, f \in Filters :
          RagSearchPOST(v, q, l, f) /\ UNCHANGED <<ragVars, tktVars, auxVars>>
    \/ SearchFail /\ UNCHANGED <<ragVars, tktVars, auxVars>>
    \/ \E results \in ragSearch(rag_items, req.limit, req.filter) :
          SearchOk(results) /\ UNCHANGED <<ragVars, tktVars, auxVars>>
    \/ RetrieveFail /\ UNCHANGED <<ragVars, tktVars, auxVars>>
    \/ \E ev \in retrieveEvidence(rag_items, RouteLimit(route)) :
          RetrieveOk(ev) /\ UNCHANGED <<ragVars, tktVars, auxVars>>
    \/ \E s \in Statuses, b \in Bodies :
          Respond(s, b) /\ UNCHANGED <<ragVars, tktVars, auxVars>>
    \/ NetworkError /\ UNCHANGED <<ragVars, tktVars, auxVars>>
    \/ \E t \in timers : TimerFire(t) /\ UNCHANGED <<ragVars, tktVars, auxVars>>
    \/ BackoffDone /\ UNCHANGED <<ragVars, tktVars, auxVars>>
    \/ RequestEnds /\ UNCHANGED <<ragVars, tktVars, auxVars>>

Spec == Init /\ [][Next]_vars

\* timers fire and waits end; the endpoint and the store need not answer
Fairness ==
    /\ WF_vars((\E t \in timers : TimerFire(t))
                 /\ UNCHANGED <<ragVars, tktVars, auxVars>>)
    /\ WF_vars(BackoffDone /\ UNCHANGED <<ragVars, tktVars, auxVars>>)

FairSpec == Spec /\ Fairness

----------------------------------------------------------------------------
(* State machine of the ragUpsert calls, one at a time *)

\* no request is being served by the routes above
ReqIdle ==
    /\ lib = "localai"
    /\ pc = "idle"
    /\ route = "none"
    /\ evidence = <<>>
    /\ attempt = 0
    /\ timers = {}
    /\ lastError = NoError
    /\ llmLog = <<>>
    /\ result = NoResult
    /\ http = NoHttp
    /\ req = NoReq
    /\ rpc = NoRpc

InitRag ==
    /\ rag_items = {SopRow}
    /\ ReqIdle
    /\ RagIdle
    /\ TktIdle
    /\ AuxIdle

NextRag ==
    \/ \E inp \in UpsertInputs :
          RagUpsertCall(inp) /\ UNCHANGED <<reqVars, tktVars, auxVars>>
    \/ ChunkLoop /\ UNCHANGED <<reqVars, tktVars, auxVars>>
    \/ UpsertOk /\ UNCHANGED <<reqVars, tktVars, auxVars>>
    \/ UpsertError /\ UNCHANGED <<reqVars, tktVars, auxVars>>
    \/ CallAgain /\ UNCHANGED <<reqVars, tktVars, auxVars>>
    \/ CallEnds /\ UNCHANGED <<reqVars, tktVars, auxVars>>

SpecRag == InitRag /\ [][NextRag]_vars

----------------------------------------------------------------------------
(* A single ragUpsert call into the empty store, with any argument *)

InitOnce ==
    /\ rag_items = {}
    /\ ReqIdle
    /\ RagIdle
    /\ TktIdle
    /\ AuxIdle

NextOnce ==
    \/ \E inp \in ChunkInputs :
          RagUpsertCall(inp) /\ UNCHANGED <<reqVars, tktVars, auxVars>>
    \/ ChunkLoop /\ UNCHANGED <<reqVars, tktVars, auxVars>>
    \/ UpsertOk /\ UNCHANGED <<reqVars, tktVars, auxVars>>
    \/ UpsertError /\ UNCHANGED <<reqVars, tktVars, auxVars>>

SpecOnce == InitOnce /\ [][NextOnce]_vars

----------------------------------------------------------------------------
(* State machine of the status route, one request at a time *)

InitTickets ==
    /\ rag_items = {}
    /\ ReqIdle
    /\ RagIdle
    /\ impl \in {"route", "part_003"}
    /\ tickets \in {{TicketRow(ext)} : ext \in {"NULL", "INC-1"}}
    /\ clock = 0
    /\ treq = <<NoTreq, NoTreq>>
    /\ AuxIdle

NextTickets ==
    \/ \E role \in Roles, id \in {"uuid-1", "uuid-2"}, v \in BOOLEAN,
          st \in StatusFields :
          StatusPOST(1, role, id, v, st)
              /\ UNCHANGED <<rag_items, ragVars, reqVars, auxVars>>
    \/ \E ok \in BOOLEAN :
          SelectTicket(1, ok) /\ UNCHANGED <<rag_items, ragVars, reqVars, auxVars>>
    \/ \E ok \in BOOLEAN : UpdateTicket(1, ok) /\ UNCHANGED <<reqVars, auxVars>>
    \/ UpsertOk /\ UNCHANGED <<reqVars, tktVars, auxVars>>
    \/ UpsertError /\ UNCHANGED <<reqVars, tktVars, auxVars>>
    \/ AfterUpsert(1) /\ UNCHANGED <<reqVars, auxVars>>
    \/ StatusEnds(1) /\ UNCHANGED <<rag_items, ragVars, reqVars, auxVars>>

SpecTickets == InitTickets /\ [][NextTickets]_vars

----------------------------------------------------------------------------
(* Status requests of Engineers on one ticket, two of them in flight *)

NextRace ==
    \/ \E s \in DOMAIN treq, st \in StatusFields :
          StatusPOST(s, "Engineer", "uuid-1", TRUE, st)
              /\ UNCHANGED <<rag_items, ragVars, reqVars, auxVars>>
    \/ \E s \in DOMAIN treq :
          SelectTicket(s, TRUE) /\ UNCHANGED <<rag_items, ragVars, reqVars, auxVars>>
    \/ \E s \in DOMAIN treq : UpdateTicket(s, TRUE) /\ UNCHANGED <<reqVars, auxVars>>
    \/ UpsertOk /\ UNCHANGED <<reqVars, tktVars, auxVars>>
    \/ UpsertError /\ UNCHANGED <<reqVars, tktVars, auxVars>>
    \/ \E s \in DOMAIN treq : AfterUpsert(s) /\ UNCHANGED <<reqVars, auxVars>>
    \/ \E s \in DOMAIN treq :
          StatusEnds(s) /\ UNCHANGED <<rag_items, ragVars, reqVars, auxVars>>

SpecRace == InitTickets /\ [][NextRace]_vars

----------------------------------------------------------------------------
(* PATCH and status requests on the tickets, one request at a time *)

NextPatch ==
    \/ \E role \in Roles, id \in {"uuid-1", "uuid-2"}, v \in BOOLEAN :
          TicketPATCH(1, role, id, v, [f \in {"title"} |-> "b"], TRUE)
              /\ UNCHANGED <<rag_items, ragVars, reqVars, auxVars>>
    \/ \E role \in {"Admin", "Engineer"}, body \in PatchBodies,
          ok \in BOOLEAN :
          TicketPATCH(1, role, "uuid-1", TRUE, body, ok)
              /\ UNCHANGED <<rag_items, ragVars, reqVars, auxVars>>
    \/ \E st \in StatusFields :
          StatusPOST(1, "Engineer", "uuid-1", TRUE, st)
              /\ UNCHANGED <<rag_items, ragVars, reqVars, auxVars>>
    \/ SelectTicket(1, TRUE) /\ UNCHANGED <<rag_items, ragVars, reqVars, auxVars>>
    \/ UpdateTicket(1, TRUE) /\ UNCHANGED <<reqVars, auxVars>>
    \/ UpsertOk /\ UNCHANGED <<reqVars, tktVars, auxVars>>
    \/ UpsertError /\ UNCHANGED <<reqVars, tktVars, auxVars>>
    \/ AfterUpsert(1) /\ UNCHANGED <<reqVars, auxVars>>
    \/ StatusEnds(1) /\ UNCHANGED <<rag_items, ragVars, reqVars, auxVars>>

SpecPatch == InitTickets /\ [][NextPatch]_vars

----------------------------------------------------------------------------
(* Calls of the library functions and of the small routes, each behaviour
   exercising one of them *)

InitAux ==
    /\ ReqIdle
    /\ RagIdle
    /\ TktIdle
    /\ scene \in {"embed", "search", "register", "sync"}
    /\ rag_items \in IF scene = "search" THEN Stores ELSE {{}}
    /\ srch = [pc |-> "idle", module |-> "none", data |-> <<>>, out |-> <<>>]
    /\ auth = NoAuth
    /\ lim = NoLim
    /\ sync = NoSync
    /\ emb \in IF scene # "embed" THEN {NoEmb}
               ELSE {[NoEmb EXCEPT !.text = t] :
                        t \in UNION {[1..n -> {" ", "a", "A", "b"}] :
                                        n \in 0..MaxContentLen}}

NextAux ==
    \/ EmbedCall /\ UNCHANGED <<rag_items, reqVars, ragVars, tktVars>>
    \/ \E m \in {"rag.ts", "metrics.ts"}, l \in LimitFields, f \in Filters :
          \E results \in IF scene = "search"
                         THEN rag_search(rag_items, MatchCount(l), f)
                         ELSE {} :
             RagSearchCall(m, l, f, results)
                 /\ UNCHANGED <<rag_items, reqVars, ragVars, tktVars>>
    \/ \E r \in DOMAIN auth.regs, version \in {"register", "me"},
          actor \in Roles, v \in BOOLEAN, name \in {"u1", "u2"},
          roleRaw \in Roles \cup {"Owner"} :
          RegisterCount(r, version, actor, v, name, roleRaw)
              /\ UNCHANGED <<rag_items, reqVars, ragVars, tktVars>>
    \/ \E r \in DOMAIN auth.regs, insertOk \in BOOLEAN, roleOk \in BOOLEAN :
          RegisterCreate(r, insertOk, roleOk)
              /\ UNCHANGED <<rag_items, reqVars, ragVars, tktVars>>
    \/ \E issues \in UNION {[1..n -> [id : {"101", "102"},
                                       pull_request : BOOLEAN]] :
                               n \in 0..MaxIssues},
          insertOk \in BOOLEAN, resOk \in BOOLEAN, updateOk \in BOOLEAN :
          SyncStart(issues, insertOk, resOk, updateOk)
              /\ UNCHANGED <<rag_items, reqVars, ragVars, tktVars>>
    \/ \E updateOk \in BOOLEAN :
          SyncIssue(updateOk) /\ UNCHANGED <<reqVars, tktVars>>
    \/ UpsertOk /\ UNCHANGED <<reqVars, tktVars, auxVars>>
    \/ UpsertError /\ UNCHANGED <<reqVars, tktVars, auxVars>>
    \/ \E updateOk \in BOOLEAN :
          SyncAfterUpsert(updateOk) /\ UNCHANGED <<reqVars, tktVars>>

SpecAux == InitAux /\ [][NextAux]_vars

----------------------------------------------------------------------------
(* Requests to the client-log route *)

InitLimit ==
    /\ rag_items = {}
    /\ ReqIdle
    /\ RagIdle
    /\ TktIdle
    /\ scene = "client-log"
    /\ emb = NoEmb
    /\ srch = [pc |-> "idle", module |-> "none", data |-> <<>>, out |-> <<>>]
    /\ auth = NoAuth
    /\ lim = NoLim
    /\ sync = NoSync

NextLimit ==
    \/ \E ip \in DOMAIN lim.buckets, aborted \in BOOLEAN, v \in BOOLEAN :
          ClientLogPOST(ip, aborted, v)
              /\ UNCHANGED <<rag_items, reqVars, ragVars, tktVars>>
    \/ Tick /\ UNCHANGED <<rag_items, reqVars, ragVars, tktVars>>

SpecLimit == InitLimit /\ [][NextLimit]_vars

----------------------------------------------------------------------------
(* Properties *)

Ended == pc = "done" /\ result.status \in {"returned", "threw"}

IsSuccess(o) == o.class = "http" /\ ResOk(o.status)

\* network error, timeout or non-2xx response
IsFailure(o) ==
    \/ o.class \in {"network", "abort"}
    \/ o.class = "http" /\ ~ResOk(o.status)

\* C1: every request sent to the LLM endpoint was built from a non-empty
\* evidence list, and a call whose similarity search returned zero rows
\* returns its canned result having sent no request at all.
C1_NoRequestWithoutEvidence ==
    /\ \A i \in 1..Len(llmLog) : llmLog[i].refs # <<>>
    /\ evidence = <<>> => llmLog = <<>>
    /\ (result.status = "returned" /\ evidence = <<>>) =>
          /\ llmLog = <<>>
          /\ result.payload = IF route = "suggest" THEN CannedSuggestion
                              ELSE CannedSop

C1_Witness ==
    /\ route = "sop"
    /\ rag_items = {}
    /\ result.status = "returned"
    /\ result.payload = CannedSop
    /\ llmLog = <<>>
    /\ http.status = 200

\* C2: when the retrieval of aiSuggest returns zero rows, the returned object
\* has evidence = [], confidence_overall 0, no root causes, no recommended
\* steps and exactly one question.
C2_CannedSuggestion ==
    (route = "suggest" /\ result.status = "returned" /\ evidence = <<>>) =>
        /\ result.evidence = <<>>
        /\ result.payload.keys = SuggestionKeys
        /\ result.payload.confidence_overall = 0
        /\ result.payload.root_causes = <<>>
        /\ result.payload.recommended_steps = <<>>
        /\ Len(result.payload.questions) = 1

C2_Witness ==
    /\ route = "suggest"
    /\ rag_items = {}
    /\ result.status = "returned"
    /\ result.evidence = <<>>
    /\ Len(result.payload.questions) = 1
    /\ http.ok

\* C3: one chatCompletion call sends at most 3 requests, and sends no further
\* request once an attempt has received a 2xx response.
C3_AtMostThreeNoneAfter2xx ==
    lib = "localai" =>
        /\ Len(llmLog) <= 3
        /\ \A i \in 1..Len(llmLog) :
              IsSuccess(llmLog[i].outcome) => i = Len(llmLog)

\* C4: a generation call eventually returns or throws whatever the endpoint
\* does; every request in flight has its own abort timer (30 s in
\* chatCompletion, 20 s in ollamaChatJson), and a call whose attempts were
\* all aborted by the timer throws the AbortError after at most 3 attempts.
C4_GenerationEnds ==
    /\ (pc \in {"fetching", "backoff"}) ~> Ended
    /\ [](pc = "fetching" =>
            [attempt |-> attempt,
             ms |-> IF lib = "localai" THEN 30000 ELSE 20000] \in timers)
    /\ []((Ended /\ llmLog # <<>>
             /\ \A i \in 1..Len(llmLog) : llmLog[i].outcome.class = "abort") =>
            /\ result.status = "threw"
            /\ result.error.name = "AbortError"
            /\ Len(llmLog) = (IF lib = "localai" THEN 3 ELSE 1))

C4_Witness ==
    /\ Ended
    /\ lib = "localai"
    /\ Len(llmLog) = 3
    /\ \A i \in 1..3 : llmLog[i].outcome.class = "abort"
    /\ result.error.name = "AbortError"

\* the error a failed attempt raises
ErrorMatches(err, o) ==
    /\ o.class = "network" => err.name = "TypeError"
    /\ o.class = "abort" => err.name = "AbortError"
    /\ o.class = "http" => err.name = "Error" /\ err.status = o.status

\* C5: if every attempt of a generation call fails, aiSuggest / aiSopDraft
\* reject with the error of the last attempt and return no object, and the
\* route answers 500 with ok = false.
C5_AllAttemptsFail ==
    (Ended /\ llmLog # <<>>
       /\ \A i \in 1..Len(llmLog) : IsFailure(llmLog[i].outcome)) =>
        /\ result.status = "threw"
        /\ result.error.attempt = Len(llmLog)
        /\ ErrorMatches(result.error, llmLog[Len(llmLog)].outcome)
        /\ result.payload = NoValue
        /\ http.status = 500
        /\ http.ok = FALSE
        /\ http.keys = {"ok", "error"}

C5_Witness ==
    /\ Ended
    /\ lib = "localai"
    /\ Len(llmLog) = 3
    /\ llmLog[1].outcome.class = "network"
    /\ llmLog[2].outcome.class = "abort"
    /\ llmLog[3].outcome.class = "http" /\ llmLog[3].outcome.status = 500
    /\ result.error = [name |-> "Error", status |-> 500, attempt |-> 3]
    /\ http.status = 500

\* C6: chatCompletion makes another attempt only after a network error, a
\* timeout or a 5xx response; after a 4xx response it makes none. Stated on
\* the attempts the endpoint answered with an error status: such an attempt
\* is followed by another one only if the status was 5xx.
C6_RetryOnlyTransient ==
    lib = "localai" =>
        \A i \in 1..(Len(llmLog) - 1) :
            LET o == llmLog[i].outcome
            IN  (o.class = "http" /\ ~ResOk(o.status)) =>
                    /\ o.status >= 500 /\ o.status <= 599
                    /\ ~(o.status >= 400 /\ o.status <= 499)

\* C7: a 2xx answer whose message content is not parseable JSON makes
\* chatCompletion (json mode) return {raw: content} from that same attempt,
\* without throwing and without another attempt.
C7_RawFallback ==
    lib = "localai" =>
        \A i \in 1..Len(llmLog) :
            LET o == llmLog[i].outcome
            IN  (IsSuccess(o) /\ o.bodyJson /\ ~o.parses) =>
                    /\ i = Len(llmLog)
                    /\ Ended
                    /\ result.status = "returned"
                    /\ result.payload.keys = {"raw"}
                    /\ result.payload.raw = o.content

C7_Witness ==
    /\ lib = "localai"
    /\ Len(llmLog) = 2
    /\ IsSuccess(llmLog[2].outcome)
    /\ llmLog[2].outcome.bodyJson
    /\ llmLog[2].outcome.content = "Sure, here is"
    /\ result.status = "returned"
    /\ result.payload.raw = "Sure, here is"

SchemaOf(r) == IF r = "suggest" THEN SuggestionKeys ELSE SopDraftKeys

\* C8: parseable JSON that does not match the Suggestion / SOPDraft schema
\* reaches the caller of aiSuggest / aiSopDraft as {raw: string}, never as
\* the schema-violating value.
C8_SchemaOrRaw ==
    result.status = "returned" =>
        \/ result.payload.keys = {"raw"}
        \/ result.payload.keys = SchemaOf(route)

TokensOf(ev) == {ev[i].ref : i \in 1..Len(ev)}

RefsOf(v) ==
    UNION {{c.evidence_refs[j] : j \in 1..Len(c.evidence_refs)} :
             c \in {v.root_causes[i] : i \in 1..Len(v.root_causes)}
                     \cup {v.recommended_steps[i] :
                             i \in 1..Len(v.recommended_steps)}}
        \cup {v.references[i] : i \in 1..Len(v.references)}

\* C9: in every non-raw result, each entry of evidence_refs and of references
\* is one of the tokens of the evidence returned in that result.
C9_RefsAreEvidenceTokens ==
    (result.status = "returned" /\ result.payload.keys # {"raw"}) =>
        RefsOf(result.payload) \subseteq TokensOf(result.evidence)

\* the k-th token, written out
Token(k) == "E" \o ToString(k)

\* C10: retrieveEvidence gives the k-th row of the search the token E<k>:
\* tokens are pairwise distinct, there is one evidence item per row returned
\* (each a different stored row, with its score), and scores do not increase
\* from E1 to En.
C10_RankedTokens ==
    (pc \in {"fetching", "backoff"}
       \/ (pc = "done" /\ (result.status = "returned" \/ llmLog # <<>>))) =>
        /\ \A k \in 1..Len(evidence) : evidence[k].ref = Token(k)
        /\ \A j, k \in 1..Len(evidence) :
              j # k => /\ evidence[j].ref # evidence[k].ref
                       /\ evidence[j].source_id # evidence[k].source_id
        /\ \A k \in 1..Len(evidence) :
              \E r \in rag_items : /\ r.source_id = evidence[k].source_id
                                   /\ r.source_type = evidence[k].source_type
                                   /\ evidence[k].score = 1 - r.dist
        /\ Len(evidence) = Min(Cardinality(rag_items),
                               IF route = "suggest" THEN 6 ELSE 8)
        /\ \A k \in 1..(Len(evidence) - 1) :
              evidence[k].score >= evidence[k + 1].score

C10_Witness ==
    /\ pc = "fetching"
    /\ Len(evidence) = 2
    /\ evidence[1].ref = "E1" /\ evidence[2].ref = "E2"
    /\ evidence[1].score > evidence[2].score

\* C11: for every integer limit passed to ragSearch, the match_count sent to
\* the store lies in 1..50: 8 when no limit is given, the requested value when
\* it is within 1..50, 1 when it is below 1, 50 when it is above 50; and the
\* number of rows returned never exceeds it.
C11_MatchCountClamped ==
    rpc.called =>
        /\ rpc.match_count >= 1 /\ rpc.match_count <= 50
        /\ Len(rpc.results) <= rpc.match_count
        /\ route = "search" =>
              LET l == req.limit
                  m == rpc.match_count
              IN  /\ l.type = "undefined" => m = 8
                  /\ (l.type = "number" /\ l.value >= 1 /\ l.value <= 50) =>
                        m = l.value
                  /\ (l.type = "number" /\ l.value < 1) => m = 1
                  /\ (l.type = "number" /\ l.value > 50) => m = 50

C11_Witness ==
    /\ route = "search"
    /\ pc = "done"
    /\ req.limit = [type |-> "number", value |-> 0]
    /\ rpc.called
    /\ rpc.match_count = 1
    /\ Cardinality(rag_items) = 2
    /\ Len(rpc.results) = 1
    /\ http.status = 200

\* a required field that is missing, empty or only whitespace
IsMissingOrBlank(f) ==
    f.type # "string" \/ \A i \in 1..Len(f.value) : f.value[i] = " "

RequiredMissing == \E i \in 1..Len(req.required) : IsMissingOrBlank(req.required[i])

NoCallMade == pc = "done" /\ ~rpc.called /\ llmLog = <<>> /\ evidence = <<>>

KeyOf(r) == <<r.source_type, r.source_id, r.chunk_index>>

\* the rows stored for the source of the call
RowsOfSource ==
    {r \in rag_items : /\ r.source_type = input.sourceType
                       /\ r.source_id = input.sourceId}

\* C12: calling ragUpsert twice in a row with the same argument leaves the
\* store with exactly the keys and the rows it had after the first call; the
\* row count does not grow.
C12_SecondUpsertChangesNothing ==
    (upc = "done" /\ again /\ ret.status = "returned") =>
        /\ {KeyOf(r) : r \in rag_items} = {KeyOf(r) : r \in before}
        /\ rag_items = before
        /\ Cardinality(rag_items) = Cardinality(before)

C12_Witness ==
    /\ upc = "done"
    /\ again
    /\ ret.status = "returned"
    /\ ret.chunksUpserted = 2
    /\ ret.writes = 1
    /\ Cardinality(RowsOfSource) = 2

\* C13: after a successful ragUpsert, the chunk_index values stored for its
\* (sourceType, sourceId) are exactly 0..N-1, N being the number of chunks
\* this most recent upsert of the source produced.
C13_IndicesOfLastUpsert ==
    (upc = "done" /\ ret.status = "returned" /\ ret.writes = 1) =>
        {r.chunk_index : r \in RowsOfSource} = 0..(Len(chunker.chunks) - 1)

\* the policy of the call: maxChars >= 1 and 0 <= overlapChars < maxChars
ValidPolicy ==
    /\ MaxCharsOf(input) >= 1
    /\ OverlapCharsOf(input) >= 0
    /\ OverlapCharsOf(input) < MaxCharsOf(input)

\* C14: for maxChars >= 1 and 0 <= overlapChars < maxChars, every chunk of
\* chunkTextByChars has a length between 1 and maxChars.
C14_ChunkLengths ==
    (upc # "idle" /\ ValidPolicy) =>
        \A k \in 1..Len(chunker.chunks) :
            /\ Len(chunker.chunks[k]) >= 1
            /\ Len(chunker.chunks[k]) <= MaxCharsOf(input)

C14_Witness ==
    /\ upc = "writing"
    /\ input.maxChunkChars = [type |-> "number", value |-> 2]
    /\ input.overlapChars = [type |-> "number", value |-> 0]
    /\ chunker.clean = <<"a", " ", "a">>
    /\ chunker.chunks = <<<<"a">>, <<"a">>>>

\* the trimmed slices of the windows, the empty ones left out
ChunksOfWindows(clean, W) ==
    LET NonEmpty(c) == c # <<>>
    IN  SelectSeq([k \in 1..Len(W) |-> Trim(Slice(clean, W[k].start, W[k].end))],
                  NonEmpty)

\* C15: for 0 <= overlapChars < maxChars, every character position of the
\* trimmed text lies inside a window [start, start + maxChars) sliced by
\* chunkTextByChars, consecutive windows start maxChars - overlapChars apart,
\* the last window ends at the end of the text, and the chunks are the
\* trimmed slices of the windows: nothing but whitespace is left out.
C15_WindowsCoverText ==
    (upc \in {"writing", "done"} /\ ValidPolicy /\ chunker.clean # <<>>) =>
        LET W == chunker.windows
            clean == chunker.clean
        IN  /\ \A p \in 0..(Len(clean) - 1) :
                  \E k \in 1..Len(W) :
                      /\ W[k].start <= p
                      /\ p < W[k].start + MaxCharsOf(input)
                      /\ p < W[k].end
            /\ \A k \in 1..(Len(W) - 1) :
                  W[k + 1].start =
                      W[k].start + MaxCharsOf(input) - OverlapCharsOf(input)
            /\ W[Len(W)].end = Len(clean)
            /\ chunker.chunks = ChunksOfWindows(clean, W)

C15_Witness ==
    /\ upc = "writing"
    /\ input.maxChunkChars = [type |-> "number", value |-> 2]
    /\ input.overlapChars = [type |-> "number", value |-> 1]
    /\ chunker.clean = <<"a", "a", "a">>
    /\ chunker.windows = <<[start |-> 0, end |-> 2], [start |-> 1, end |-> 3]>>

\* C16: chunkTextByChars terminates for every text and every pair (maxChars,
\* overlapChars): it stops once the window would not advance. Stated on the
\* windows sliced so far: each starts after the one before it, so there are
\* never more windows than characters.
C16_WindowsAdvance ==
    /\ \A k \in 1..(Len(chunker.windows) - 1) :
          chunker.windows[k + 1].start > chunker.windows[k].start
    /\ Len(chunker.windows) <= Len(chunker.clean)

IsWhitespace(text) == \A i \in 1..Len(text) : text[i] = " "

\* C17: ragUpsert with content that is empty or only whitespace returns
\* {chunksUpserted: 0}, issues no write to the store and leaves every stored
\* row unchanged, the rows stored earlier for the same source included.
C17_BlankContentWritesNothing ==
    (upc # "idle" /\ IsWhitespace(input.content)) =>
        /\ upc = "done"
        /\ ret = [status |-> "returned", chunksUpserted |-> 0, writes |-> 0]
        /\ rag_items = before

C17_Witness ==
    /\ upc = "done"
    /\ input.content = <<" ", " ">>
    /\ ret.status = "returned"
    /\ ret.chunksUpserted = 0
    /\ Cardinality(RowsOfSource) = 2
    /\ rag_items = before

CeilDiv(a, b) == (a + b - 1) \div b

\* no window of the call begins or ends with whitespace
NoEdgeWhitespace ==
    \A k \in 1..Len(chunker.windows) :
        LET w == chunker.windows[k]
        IN  /\ chunker.clean[w.start + 1] # " "
            /\ chunker.clean[w.end] # " "

\* C18: with the default policy, ragUpsert of content of trimmed length L,
\* 1400 < L <= 2600, without whitespace at window edges, returns
\* chunksUpserted = 2 and writes rows 0 and 1 holding the characters [0,1400)
\* and [1200,L), which share 200 characters; in general, for L > maxChars,
\* chunksUpserted = 1 + ceil((L - maxChars) / (maxChars - overlapChars)).
C18_ChunkCount ==
    (upc = "done" /\ ret.status = "returned" /\ ValidPolicy
       /\ NoEdgeWhitespace) =>
        LET L == Len(chunker.clean)
            Row(i) == {r \in RowsOfSource : r.chunk_index = i}
        IN  /\ (input.maxChunkChars = NotGiven /\ input.overlapChars = NotGiven
                  /\ L > 1400 /\ L <= 2600) =>
                  /\ ret.chunksUpserted = 2
                  /\ {r.chunk_index : r \in RowsOfSource} = {0, 1}
                  /\ \A r \in Row(0) : r.content = Slice(chunker.clean, 0, 1400)
                  /\ \A r \in Row(1) : r.content = Slice(chunker.clean, 1200, L)
                  /\ chunker.windows = <<[start |-> 0, end |-> 1400],
                                         [start |-> 1200, end |-> L]>>
            /\ L > MaxCharsOf(input) =>
                  ret.chunksUpserted =
                      1 + CeilDiv(L - MaxCharsOf(input),
                                  MaxCharsOf(input) - OverlapCharsOf(input))

C18_Witness ==
    /\ upc = "done"
    /\ ret.status = "returned"
    /\ input.maxChunkChars = NotGiven
    /\ input.overlapChars = NotGiven
    /\ Len(chunker.clean) = 2600
    /\ ret.chunksUpserted = 2
    /\ Cardinality(rag_items) = 2

\* C20: whenever the status route has persisted a change of a ticket's status
\* to Resolved, it has called ragUpsert exactly once for that ticket, with
\* sourceType "ticket" and sourceId equal to the ticket's external_id when
\* set and to its id otherwise; a change to any other status calls ragUpsert
\* zero times.
C20_UpsertOnResolved ==
    (treq[1].persisted /\ treq[1].pc \in {"upserting", "done"}) =>
        LET row == CHOOSE t \in tickets : t.id = treq[1].id
        IN  IF treq[1].nextStatus = "Resolved"
            THEN /\ Len(treq[1].upserts) = 1
                 /\ treq[1].upserts[1].sourceType = "ticket"
                 /\ row.external_id # "NULL" =>
                       treq[1].upserts[1].sourceId = row.external_id
                 /\ row.external_id = "NULL" =>
                       treq[1].upserts[1].sourceId = row.id
                 /\ upc # "idle" =>
                       /\ input.sourceType = "ticket"
                       /\ input.sourceId = treq[1].upserts[1].sourceId
            ELSE /\ treq[1].upserts = <<>>
                 /\ upc = "idle"

C20_Witness ==
    /\ treq[1].pc = "done"
    /\ treq[1].persisted
    /\ treq[1].nextStatus = "Resolved"
    /\ treq[1].status = 200
    /\ treq[1].upserts = <<[sourceType |-> "ticket", sourceId |-> "INC-1"]>>
    /\ \E r \in rag_items : r.source_type = "ticket" /\ r.source_id = "INC-1"

\* C27: when a generation call has returned or thrown, no abort timer armed by
\* it is still pending; and every pending timer is the one of the attempt in
\* progress, so the timer of attempt k never meets the request of a later
\* attempt.
C27_NoTimerOutlivesItsAttempt ==
    /\ Ended => timers = {}
    /\ pc = "idle" => timers = {}
    /\ \A t \in timers : t.attempt = attempt

C27_Witness ==
    /\ Ended
    /\ lib = "localai"
    /\ result.status = "returned"
    /\ Len(llmLog) = 2
    /\ llmLog[1].outcome.class = "abort"
    /\ IsSuccess(llmLog[2].outcome)
    /\ timers = {}

\* C28: if ragUpsert fails while a ticket is being set to Resolved, the status
\* change stays persisted (status Resolved, resolved_at set, status_changed
\* event recorded) and the status route still answers ok = true.
C28_UpsertFailureIsSwallowed ==
    (treq[1].pc = "done" /\ treq[1].threw) =>
        LET row == CHOOSE t \in tickets : t.id = treq[1].id
        IN  /\ row.status = "Resolved"
            /\ row.resolved_at # 0
            /\ Len(treq[1].event) = 1
            /\ treq[1].event[1].to_status = "Resolved"
            /\ treq[1].ok
            /\ treq[1].status = 200

\* C23: a request whose actor role is Viewer never causes a write to the
\* tickets or ticket_events tables nor a ragUpsert.
C23_ViewerNeverWrites ==
    treq[1].role = "Viewer" =>
        /\ ~treq[1].persisted
        /\ treq[1].event = <<>>
        /\ treq[1].upserts = <<>>

\* C26: across any sequence of status-change requests on one ticket, concurrent
\* ones included, a resolved_at or closed_at that is set is never overwritten
\* nor cleared by a later status change.
C26_TimestampsWrittenOnce ==
    [][\A t \in tickets : \A u \in tickets' :
          u.id = t.id =>
              /\ t.resolved_at # 0 => u.resolved_at = t.resolved_at
              /\ t.closed_at # 0 => u.closed_at = t.closed_at]_vars

PatchStep == treq[1].pc = "idle" /\ treq'[1].method = "PATCH"

PatchableColumns ==
    {"title", "description", "resolution_notes", "type", "priority",
     "service", "site", "topics"}

\* the columns of every ticket outside the set cols are left as they were
FrameOutside(cols) ==
    \A t \in tickets : \E u \in tickets' :
        /\ u.id = t.id
        /\ \A c \in DOMAIN t \ cols : u[c] = t[c]

\* every supplied patchable field equals the stored value => nothing is written
NoChangeNoWrite ==
    LET rq == treq'[1]
        supplied == {f \in DOMAIN rq.body : DbField(f) \in PatchableColumns}
    IN  (\A t \in tickets : t.id = rq.id =>
            \A f \in supplied : rq.body[f] = t[DbField(f)])
        => /\ tickets' = tickets
           /\ ~rq.persisted
           /\ rq.event = <<>>
           /\ ~rq.audit

\* C30 as stated: a ticket PATCH never changes any column outside title,
\* description, resolution_notes, type, priority, service, site and topics,
\* and writes nothing when every supplied field equals the stored value.
C30_Stated ==
    [][PatchStep => FrameOutside(PatchableColumns) /\ NoChangeNoWrite]_vars

\* C30: a ticket PATCH never changes status, resolved_at, closed_at or any
\* column outside title, description, resolution_notes, type, priority,
\* service, site, topics and updated_at (which the trigger sets on every
\* update); when every supplied field equals the stored value it performs no
\* update, inserts no ticket_event and writes no audit log.
C30_PatchFrame ==
    [][PatchStep => /\ FrameOutside(PatchableColumns \cup {"updated_at"})
                    /\ NoChangeNoWrite]_vars

C30_Witness ==
    /\ treq[1].pc = "done"
    /\ treq[1].method = "PATCH"
    /\ treq[1].status = 200
    /\ "title" \in DOMAIN treq[1].body
    /\ "status" \in DOMAIN treq[1].body
    /\ treq[1].body["title"] = "b"
    /\ treq[1].existing.title = "b"
    /\ treq[1].existing.status = "Resolved"
    /\ ~treq[1].persisted
    /\ tickets = {treq[1].existing}

\* the text after toLowerCase().trim(), computed apart from the model
LowerTrimmed(text) ==
    LET low == [k \in DOMAIN text |-> IF text[k] = "A" THEN "a" ELSE text[k]]
        inner == {k \in DOMAIN low : low[k] # " "}
    IN  IF inner = {} THEN <<>>
        ELSE SubSeq(low, CHOOSE k \in inner : \A j \in inner : k <= j,
                         CHOOSE k \in inner : \A j \in inner : k >= j)

CodeOf(c) == IF c = " " THEN 32 ELSE IF c = "a" THEN 97 ELSE 98

\* the sum of the entries of v at the indices in K
RECURSIVE SumOver(_, _)
SumOver(v, K) ==
    IF K = {} THEN 0
    ELSE LET k == CHOOSE x \in K : TRUE IN v[k] + SumOver(v, K \ {k})

\* C21: for every text, embedTextToVector384 returns a vector of exactly 384
\* entries without throwing; before normalisation, bucket b holds the number
\* of positions i of the lower-cased, trimmed text with
\* (charCode_i * (i+1)) mod 384 = b, so the counts sum to the length of that
\* text, and the empty text yields the all-zero vector with no division by
\* zero.
C21_BucketCounts ==
    emb.pc = "done" =>
        LET norm == LowerTrimmed(emb.text)
        IN  /\ Len(emb.vector) = 384
            /\ emb.pgvector = "string"
            /\ \A b \in 0..383 :
                  emb.vector[b + 1] =
                      Cardinality({i \in 0..(Len(norm) - 1) :
                                      (CodeOf(norm[i + 1]) * (i + 1)) % 384 = b})
            /\ SumOver(emb.vector, {k \in 1..384 : emb.vector[k] # 0})
                  = Len(norm)
            /\ emb.magSq # 0
            /\ norm = <<>> => \A k \in 1..384 : emb.vector[k] = 0

C21_Witness ==
    /\ emb.pc = "done"
    /\ emb.text = <<" ", "A", "b">>
    /\ emb.vector[97 + 1] = 1
    /\ emb.vector[196 + 1] = 1
    /\ emb.magSq = 2

\* C22: every row returned by ragSearch carries as score the numeric value
\* that the store's rag_search function computed for that row; score is never
\* undefined.
C22_ScoreOfTheStore ==
    srch.pc = "done" =>
        /\ Len(srch.out) = Len(srch.data)
        /\ \A k \in DOMAIN srch.out :
              /\ srch.out[k].score.type = "number"
              /\ srch.out[k].score.value = srch.data[k].score

\* C24: under any interleaving of concurrent registration requests, at most
\* one user is ever created with role Admin by a requester who is not an Admin
\* (the bootstrap of the first user).
C24_OneBootstrapAdmin ==
    Cardinality({u \in auth.users : u.role = "Admin" /\ u.by # "Admin"}) <= 1

RECURSIVE LetThrough(_)
LetThrough(seen) ==
    IF seen = <<>> THEN 0 ELSE Head(seen).n + LetThrough(Tail(seen))

\* C25: for each client IP, the client-log route lets through at most 60
\* requests in any 60-second interval.
C25_SixtyPerMinute ==
    \A ip \in DOMAIN lim.recent : LetThrough(lim.recent[ip]) <= 60

\* C29: every syncGitHubIssues run that created its sync_logs row leaves that
\* row with status completed when the run returns and failed when it throws,
\* never running; processedCount equals the number of issues upserted.
C29_LogRowSettled ==
    (sync.pc = "done" /\ sync.log # "none") =>
        /\ sync.log # "running"
        /\ sync.outcome = "returned" =>
              /\ sync.log = "completed"
              /\ sync.items_processed = sync.upserted
              /\ sync.processedCount = sync.upserted
        /\ sync.outcome = "threw" => sync.log = "failed"

====
